---------------------------- MODULE Spec2Model ----------------------------
(***************************************************************************)
(* Model of the mpl_bubblegum native library: the three transaction        *)
(* builders (create_tree_config_builder, mint_v1_builder,                  *)
(* transfer_builder), the NIF entry points of lib.rs and the helpers of    *)
(* utils.rs.                                                               *)
(*                                                                         *)
(* Conventions                                                             *)
(*   - a Rust String is a sequence of one-character strings;               *)
(*   - a byte vector is a sequence of 0..255;                              *)
(*   - Option<T> is a record [some, v];                                    *)
(*   - u64 / u32 are little-endian byte sequences of 8 / 4 bytes, so that  *)
(*     `as u32` is a truncation of the representation;                     *)
(*   - a builder invocation runs from "idle" to "done"; it is split at its *)
(*     blocking calls to the ledger RPC, whose replies are inputs.         *)
(***************************************************************************)
EXTENDS Integers, Sequences, FiniteSets, TLC

VARIABLES
    pc,         \* position of the running builder invocation
    op,         \* which builder runs: "none", "tree", "mint", "transfer"
    via,        \* "nif" when entered through lib.rs, "builder" when called directly
    args,       \* the arguments of the invocation
    payer,      \* the decoded payer Keypair
    tree_kp,    \* create-tree: the Keypair::new() of the merkle tree
    ixs,        \* the assembled instructions
    ledger,     \* the RPC calls made so far by this invocation, in order
    blockhash,  \* the recent blockhash obtained
    result      \* what the invocation returned (or how it aborted)

vars == <<pc, op, via, args, payer, tree_kp, ixs, ledger, blockhash, result>>

-----------------------------------------------------------------------------
(* Bounds of the model *)

\* longest proof list drawn as an input
MaxProof == 2
\* number of arguments of a transfer call that are varied together, the others
\* being those of the well-formed call
MaxDefects == 2

-----------------------------------------------------------------------------
(* Generic helpers *)

Rep(c, n) == [i \in 1..n |-> c]

Reverse(s) == [i \in 1..Len(s) |-> s[Len(s) + 1 - i]]

None == [some |-> FALSE, v |-> <<>>]
Some(x) == [some |-> TRUE, v |-> x]

\* Result<T, E> of a library call
OkR(x) == [ok |-> TRUE, v |-> x]
ErrR == [ok |-> FALSE, v |-> <<>>]

-----------------------------------------------------------------------------
(* bs58::decode(..).into_vec() *)

B58Alphabet ==
    << "1","2","3","4","5","6","7","8","9",
       "A","B","C","D","E","F","G","H","J","K","L","M","N","P","Q","R","S","T","U","V","W","X","Y","Z",
       "a","b","c","d","e","f","g","h","i","j","k","m","n","o","p","q","r","s","t","u","v","w","x","y","z" >>

B58Chars == {B58Alphabet[i] : i \in 1..Len(B58Alphabet)}

B58Digit(c) == (CHOOSE i \in 1..Len(B58Alphabet) : B58Alphabet[i] = c) - 1

\* one character folded into the little-endian accumulator:
\*   for byte in output { val += byte * 58; byte = val & 0xff; val >>= 8 }
RECURSIVE B58Carry(_, _, _)
B58Carry(out, i, val) ==
    IF i > Len(out) THEN [out |-> out, val |-> val]
    ELSE LET v == val + out[i] * 58
         IN B58Carry([out EXCEPT ![i] = v % 256], i + 1, v \div 256)

\*   while val > 0 { output.push(val & 0xff); val >>= 8 }
RECURSIVE B58Push(_, _)
B58Push(out, val) ==
    IF val = 0 THEN out ELSE B58Push(Append(out, val % 256), val \div 256)

\* the characters from position i on, folded into the accumulator (the test
\* on Len(next) makes TLC evaluate the accumulator at every character)
RECURSIVE B58Fold(_, _, _)
B58Fold(s, i, out) ==
    IF i > Len(s) THEN out
    ELSE LET r == B58Carry(out, 1, B58Digit(s[i]))
             next == B58Push(r.out, r.val)
         IN IF Len(next) >= 0 THEN B58Fold(s, i + 1, next) ELSE <<>>

\* input.iter().take_while(|c| **c == zero).count()
LeadingOnes(s) ==
    LET others == {i \in 1..Len(s) : s[i] # "1"}
    IN IF others = {} THEN Len(s)
       ELSE (CHOOSE i \in others : \A j \in others : i <= j) - 1

\* Err on a character outside the alphabet; otherwise the bytes, big-endian,
\* one zero byte per leading '1' (a leading '1' leaves the empty accumulator
\* empty, so the fold starts behind them)
bs58_decode(s) ==
    IF \E i \in 1..Len(s) : s[i] \notin B58Chars THEN ErrR
    ELSE OkR(Reverse(B58Fold(s, LeadingOnes(s) + 1, <<>>) \o Rep(0, LeadingOnes(s))))

-----------------------------------------------------------------------------
(* Keys *)

\* the length of a hash, a root and a public key: [u8; 32]
HASH_LEN == 32

\* Pubkey::from_str / Pubkey::try_from(&str): at most 44 characters of base58
\* that decode to exactly 32 bytes
Pubkey_from_str(s) ==
    IF Len(s) > 44 THEN ErrR
    ELSE LET d == bs58_decode(s)
         IN IF d.ok /\ Len(d.v) = 32 THEN OkR(d.v) ELSE ErrR

\* Keypair::from_bytes: 32 bytes of secret followed by the 32 bytes of the
\* public key
Keypair_from_bytes(b) ==
    IF Len(b) = 64
    THEN OkR([secret |-> SubSeq(b, 1, 32), pubkey |-> SubSeq(b, 33, 64)])
    ELSE ErrR

NoKeypair == [secret |-> <<>>, pubkey |-> <<>>]


\* FromStrConst for Pubkey (utils.rs): Pubkey::try_from(s).expect(..), the
\* result still carries whether the expect would panic
from_str_const(s) == Pubkey_from_str(s)

-----------------------------------------------------------------------------
(* Fixed program identifiers *)

\* pubkey!("BGUMAp9Gq7iTEuizy4pqaxsTyUCBK68MDfK752saRPUY")
BUBBLEGUM_ID ==
    Pubkey_from_str(<< "B","G","U","M","A","p","9","G","q","7","i","T","E","u","i","z","y","4","p","q","a","x","s","T","y","U","C","B","K","6","8","M","D","f","K","7","5","2","s","a","R","P","U","Y" >>).v

\* mpl_bubblegum::ID, the program id the mpl_bubblegum crate derives PDAs and
\* builds instructions under; the same address
MPL_BUBBLEGUM_ID == BUBBLEGUM_ID

\* pubkey!("noopb9bkMVfRPU8AsbpTUg8AQkHtKwMYZiFUjNRtMmV")
LOG_WRAPPER_ID ==
    Pubkey_from_str(<< "n","o","o","p","b","9","b","k","M","V","f","R","P","U","8","A","s","b","p","T","U","g","8","A","Q","k","H","t","K","w","M","Y","Z","i","F","U","j","N","R","t","M","m","V" >>).v

\* spl_account_compression::ID
COMPRESSION_ID ==
    Pubkey_from_str(<< "c","m","t","D","v","X","u","m","G","C","r","q","C","1","A","g","e","7","4","A","V","P","h","S","R","V","X","J","M","d","8","P","J","S","9","1","L","8","K","b","N","C","K" >>).v

\* system_program::ID
SYSTEM_PROGRAM_ID == Pubkey_from_str(Rep("1", 32)).v

-----------------------------------------------------------------------------
(* Pubkey::find_program_address *)

\* b"ProgramDerivedAddress"
PDA_MARKER ==
    << 80, 114, 111, 103, 114, 97, 109, 68, 101, 114, 105, 118, 101, 100, 65,
       100, 100, 114, 101, 115, 115 >>

\* Stand-in for SHA-256: a deterministic 32-byte digest of the whole input,
\* sensitive to every byte and to its position
RECURSIVE Mix(_, _, _)
Mix(bytes, lo, hi) ==
    IF lo > hi THEN 0
    ELSE IF lo = hi THEN ((bytes[lo] + 1) * (lo + 30)) % 65521
    ELSE LET mid == (lo + hi) \div 2
         IN (Mix(bytes, lo, mid) + Mix(bytes, mid + 1, hi)) % 65521

sha256(bytes) ==
    LET h == Mix(bytes, 1, Len(bytes))
    IN [i \in 1..32 |-> ((h \div (1 + (i % 7))) + i * (h % 251)) % 256]

\* Stand-in for the ed25519 point-decompression test
is_on_curve(h) == (h[1] + h[32]) % 2 = 1

RECURSIVE Concat(_, _)
Concat(seqs, i) == IF i > Len(seqs) THEN <<>> ELSE seqs[i] \o Concat(seqs, i + 1)

\* Pubkey::create_program_address
create_program_address(seeds, program_id) ==
    LET h == sha256(Concat(seeds, 1) \o program_id \o PDA_MARKER)
    IN IF is_on_curve(h) THEN ErrR ELSE OkR(h)

\* bump seeds are tried from 255 downward; the first off-curve address wins
RECURSIVE try_bump(_, _, _)
try_bump(seeds, program_id, bump) ==
    IF bump < 0 THEN ErrR
    ELSE LET r == create_program_address(Append(seeds, <<bump>>), program_id)
         IN IF r.ok THEN OkR(<<r.v, bump>>) ELSE try_bump(seeds, program_id, bump - 1)

\* the (address, bump) pair
find_program_address(seeds, program_id) == try_bump(seeds, program_id, 255).v

\* mpl_bubblegum::accounts::TreeConfig::find_pda(merkle_tree).0
TreeConfig_find_pda(merkle_tree) ==
    find_program_address(<<merkle_tree>>, MPL_BUBBLEGUM_ID)[1]

-----------------------------------------------------------------------------
(* Instructions *)

\* AccountMeta
Meta(pubkey, is_signer, is_writable) ==
    [pubkey |-> pubkey, is_signer |-> is_signer, is_writable |-> is_writable]

\* the conversion `Instruction { program_id: .., accounts: ..map(AccountMeta {..}), data }`
\* between the two AccountMeta types keeps key, flags and order
to_sdk_instruction(ix) ==
    [program_id |-> ix.program_id,
     accounts |-> [i \in 1..Len(ix.accounts) |->
                     Meta(ix.accounts[i].pubkey, ix.accounts[i].is_signer,
                          ix.accounts[i].is_writable)],
     data |-> ix.data]

\* mutant: the proof entries in reverse order
proof_accounts_reversed(hashes) ==
    [i \in 1..Len(hashes) |-> [pubkey |-> hashes[Len(hashes) + 1 - i],
                                is_signer |-> FALSE, is_writable |-> FALSE]]

\* the proof entries as remaining accounts: read-only, non-signer, input order
proof_accounts_of(hashes) ==
    [i \in 1..Len(hashes) |-> Meta(hashes[i], FALSE, FALSE)]

\* mutant: the owner is always flagged as signer
leaf_owner_always_signs(delegate_is_signing) == TRUE

\* .leaf_owner(key, !delegate_is_signing) / .leaf_delegate(key, delegate_is_signing)
leaf_owner_signs(delegate_is_signing) == ~delegate_is_signing
leaf_delegate_signs(delegate_is_signing) == delegate_is_signing

\* TransferBuilder::new()...instruction(): the accounts of the Bubblegum
\* `transfer` instruction in the order the mpl_bubblegum client emits them
\* (log wrapper, compression program and system program are the builder's
\* defaults), followed by the remaining accounts
TransferInstruction(new_leaf_owner, tree_config, leaf_owner, leaf_delegate, delegate_is_signing, merkle_tree, root, data_hash, creator_hash, nonce, index, remaining) ==
    [program_id |-> MPL_BUBBLEGUM_ID,
     accounts |->
        << Meta(tree_config, FALSE, FALSE),
           Meta(leaf_owner, leaf_owner_signs(delegate_is_signing), FALSE),
           Meta(leaf_delegate, leaf_delegate_signs(delegate_is_signing), FALSE),
           Meta(new_leaf_owner, FALSE, FALSE),
           Meta(merkle_tree, FALSE, TRUE),
           Meta(LOG_WRAPPER_ID, FALSE, FALSE),
           Meta(COMPRESSION_ID, FALSE, FALSE),
           Meta(SYSTEM_PROGRAM_ID, FALSE, FALSE) >> \o remaining,
     data |-> [name |-> "transfer", root |-> root, data_hash |-> data_hash,
               creator_hash |-> creator_hash, nonce |-> nonce, index |-> index]]

\* MintV1 { .. }.instruction(MintV1InstructionArgs { metadata })
MintV1Instruction(tree_config, leaf_owner, leaf_delegate, merkle_tree, payer_key, tree_creator_or_delegate, metadata) ==
    [program_id |-> MPL_BUBBLEGUM_ID,
     accounts |->
        << Meta(tree_config, FALSE, TRUE),
           Meta(leaf_owner, FALSE, FALSE),
           Meta(leaf_delegate, FALSE, FALSE),
           Meta(merkle_tree, FALSE, TRUE),
           Meta(payer_key, TRUE, FALSE),
           Meta(tree_creator_or_delegate, TRUE, FALSE),
           Meta(LOG_WRAPPER_ID, FALSE, FALSE),
           Meta(COMPRESSION_ID, FALSE, FALSE),
           Meta(SYSTEM_PROGRAM_ID, FALSE, FALSE) >>,
     data |-> [name |-> "mint_v1", metadata |-> metadata]]

\* CreateTreeConfig { .. }.instruction(CreateTreeConfigInstructionArgs { .. })
CreateTreeConfigInstruction(tree_config, merkle_tree, payer_key, tree_creator, max_depth, max_buffer_size) ==
    [program_id |-> MPL_BUBBLEGUM_ID,
     accounts |->
        << Meta(tree_config, FALSE, TRUE),
           Meta(merkle_tree, FALSE, TRUE),
           Meta(payer_key, TRUE, TRUE),
           Meta(tree_creator, TRUE, FALSE),
           Meta(LOG_WRAPPER_ID, FALSE, FALSE),
           Meta(COMPRESSION_ID, FALSE, FALSE),
           Meta(SYSTEM_PROGRAM_ID, FALSE, FALSE) >>,
     data |-> [name |-> "create_tree_config", max_depth |-> max_depth,
               max_buffer_size |-> max_buffer_size, public |-> Some(FALSE)]]

\* system_instruction::create_account(from, to, lamports, space, owner)
create_account(from, to, lamports, space, owner) ==
    [program_id |-> SYSTEM_PROGRAM_ID,
     accounts |-> << Meta(from, TRUE, TRUE), Meta(to, TRUE, TRUE) >>,
     data |-> [name |-> "create_account", lamports |-> lamports, space |-> space,
               owner |-> owner]]

-----------------------------------------------------------------------------
(* Transaction::new_signed_with_payer *)

RECURSIVE AllMetas(_, _)
AllMetas(instructions, i) ==
    IF i > Len(instructions) THEN <<>>
    ELSE instructions[i].accounts \o AllMetas(instructions, i + 1)

RECURSIVE Dedup(_, _, _)
Dedup(s, i, acc) ==
    IF i > Len(s) THEN acc
    ELSE Dedup(s, i + 1,
               IF \E j \in 1..Len(acc) : acc[j] = s[i] THEN acc ELSE Append(acc, s[i]))

\* the keys of the message that must sign: the fee payer first, then every
\* account some instruction flags as signer (writable ones before read-only
\* ones), each once
signer_keys(instructions, payer_key) ==
    LET metas == AllMetas(instructions, 1)
        w == SelectSeq(metas, LAMBDA m : m.is_signer /\ m.is_writable)
        r == SelectSeq(metas, LAMBDA m : m.is_signer /\ ~m.is_writable)
        keys == [i \in 1..Len(w) + Len(r) |->
                    IF i <= Len(w) THEN w[i].pubkey ELSE r[i - Len(w)].pubkey]
    IN Dedup(<<payer_key>> \o keys, 1, <<>>)

NoTx == [signatures |-> <<>>, signer_keys |-> <<>>, instructions |-> <<>>,
         payer |-> <<>>, recent_blockhash |-> <<>>]

\* Transaction::new_signed_with_payer(instructions, Some(payer), keypairs, hash):
\* the message is compiled, then Transaction::sign panics when a keypair is no
\* signer of the message or when a signer slot is left without a signature
new_signed_with_payer(instructions, payer_key, keypairs, recent_blockhash) ==
    LET keys == signer_keys(instructions, payer_key)
        have == {keypairs[i].pubkey : i \in 1..Len(keypairs)}
    IN IF \E k \in have : \A j \in 1..Len(keys) : keys[j] # k
       THEN [ok |-> FALSE, msg |-> "Transaction::sign failed with error KeypairPubkeyMismatch",
             tx |-> NoTx]
       ELSE IF \E j \in 1..Len(keys) : keys[j] \notin have
       THEN [ok |-> FALSE, msg |-> "Transaction::sign failed with error NotEnoughSigners",
             tx |-> NoTx]
       ELSE [ok |-> TRUE, msg |-> "",
             tx |-> [signatures |-> keys, signer_keys |-> keys,
                     instructions |-> instructions, payer |-> payer_key,
                     recent_blockhash |-> recent_blockhash]]

-----------------------------------------------------------------------------
(* utils.rs: decode_proof *)

\* one entry: bs58::decode(..).into_vec().unwrap() panics on a character
\* outside the alphabet, array.copy_from_slice(&bytes) panics unless the
\* decoded length is 32
decode_proof_entry(base58_string) ==
    LET d == bs58_decode(base58_string)
    IN IF ~d.ok
       THEN [ok |-> FALSE, msg |-> "called Result::unwrap() on an Err value", v |-> <<>>]
       ELSE IF Len(d.v) # HASH_LEN
       THEN [ok |-> FALSE,
             msg |-> "source slice length does not match destination slice length",
             v |-> <<>>]
       ELSE [ok |-> TRUE, msg |-> "", v |-> d.v]

\* the entries in input order; the first entry that panics aborts the loop
decode_proof(base58_strings) ==
    LET each == [i \in 1..Len(base58_strings) |-> decode_proof_entry(base58_strings[i])]
        bad == {i \in 1..Len(each) : ~each[i].ok}
    IN IF bad = {}
       THEN [ok |-> TRUE, msg |-> "", v |-> [i \in 1..Len(each) |-> each[i].v]]
       ELSE LET first == CHOOSE i \in bad : \A j \in bad : i <= j
            IN [ok |-> FALSE, msg |-> each[first].msg, v |-> <<>>]

-----------------------------------------------------------------------------
(* Outcomes of a builder *)

\* still running
Running == [tag |-> "None", msg |-> "", tx |-> NoTx]
\* Ok(base64::encode(bincode::serialize(&tx)))
Ok(tx) == [tag |-> "Ok", msg |-> "", tx |-> tx]
\* Err(message)
Err(msg) == [tag |-> "Err", msg |-> msg, tx |-> NoTx]
\* expect / unwrap / library panic
Panic(msg) == [tag |-> "Panic", msg |-> msg, tx |-> NoTx]

\* a stage of a builder: either it ends the builder with `out`, or it goes on
Stop(out) == [go |-> FALSE, out |-> out, payer |-> NoKeypair, ixs |-> <<>>]
Go(kp, instructions) == [go |-> TRUE, out |-> Running, payer |-> kp, ixs |-> instructions]

-----------------------------------------------------------------------------
(* builders/transfer.rs *)

\* a root / data_hash / creator_hash argument: lines 99-135
hash_field(name, opt) ==
    IF ~opt.some THEN [ok |-> FALSE, msg |-> name \o " is required", v |-> <<>>]
    ELSE LET d == bs58_decode(opt.v)
         IN IF ~d.ok THEN [ok |-> FALSE, msg |-> "Invalid " \o name \o " string", v |-> <<>>]
            ELSE IF Len(d.v) # HASH_LEN
            THEN [ok |-> FALSE, msg |-> "Invalid " \o name \o " length", v |-> <<>>]
            ELSE [ok |-> TRUE, msg |-> "", v |-> d.v]

\* an optional public key that defaults to `dflt`: lines 56-67
pubkey_or(name, opt, dflt) ==
    IF ~opt.some THEN [ok |-> TRUE, msg |-> "", v |-> dflt]
    ELSE LET k == Pubkey_from_str(opt.v)
         IN IF k.ok THEN [ok |-> TRUE, msg |-> "", v |-> k.v]
            ELSE [ok |-> FALSE, msg |-> "Invalid " \o name \o " pubkey string", v |-> <<>>]

\* mutant: one message for every missing value
required_unnamed(name, opt) ==
    IF opt.some THEN [ok |-> TRUE, msg |-> "", v |-> opt.v]
    ELSE [ok |-> FALSE, msg |-> "a required field is missing", v |-> <<>>]

\* a required value: lines 138-147
required(name, opt) ==
    IF opt.some THEN [ok |-> TRUE, msg |-> "", v |-> opt.v]
    ELSE [ok |-> FALSE, msg |-> name \o " is required", v |-> <<>>]

\* mutant: the supplied tree_config is ignored
tree_config_always_derived(opt, merkle_tree) ==
    [ok |-> TRUE, msg |-> "", v |-> TreeConfig_find_pda(merkle_tree)]

\* the tree configuration account: lines 158-168
tree_config_of(opt, merkle_tree) ==
    IF opt.some
    THEN LET k == Pubkey_from_str(opt.v)
         IN IF k.ok THEN [ok |-> TRUE, msg |-> "", v |-> k.v]
            ELSE [ok |-> FALSE, msg |-> "Invalid tree_config pubkey string", v |-> <<>>]
    ELSE [ok |-> TRUE, msg |-> "", v |-> TreeConfig_find_pda(merkle_tree)]

\* transfer_builder up to its call of get_latest_blockhash: lines 41-194
transfer_prepare(a) ==
    LET secret_key_bytes == bs58_decode(a.payer_secret_key)
        kp == Keypair_from_bytes(secret_key_bytes.v)
        new_leaf_owner == Pubkey_from_str(a.new_leaf_owner)
        delegate_is_signing == a.leaf_delegate.some
        leaf_owner_pubkey == pubkey_or("leaf_owner", a.leaf_owner, kp.v.pubkey)
        leaf_delegate_pubkey == pubkey_or("leaf_delegate", a.leaf_delegate, leaf_owner_pubkey.v)
        proof_accounts == decode_proof(a.proof.v)
        proof_accounts_program == decode_proof(a.proof.v)
        root_bytes == hash_field("root", a.root)
        data_hash_bytes == hash_field("data_hash", a.data_hash)
        creator_hash_bytes == hash_field("creator_hash", a.creator_hash)
        nonce == required("leaf_id", a.leaf_id)
        index_value == required("index", a.index)
        merkle_tree_pubkey == pubkey_or("merkle_tree", a.merkle_tree, <<>>)
        tree_config_program == tree_config_of(a.tree_config, merkle_tree_pubkey.v)
    IN IF ~secret_key_bytes.ok THEN Stop(Err("Failed to decode secret key"))
       ELSE IF ~kp.ok THEN Stop(Err("Not a valid secret key"))
       ELSE IF ~new_leaf_owner.ok THEN Stop(Err("Invalid new_leaf_owner pubkey string"))
       ELSE IF ~leaf_owner_pubkey.ok THEN Stop(Err(leaf_owner_pubkey.msg))
       ELSE IF ~leaf_delegate_pubkey.ok THEN Stop(Err(leaf_delegate_pubkey.msg))
       ELSE IF ~a.proof.some
       THEN IF a.das_get_asset_proof.some
            THEN Stop(Err("Proof extraction from DAS response not implemented"))
            ELSE Stop(Err("proof is required"))
       ELSE IF ~proof_accounts.ok THEN Stop(Panic(proof_accounts.msg))
       ELSE IF ~proof_accounts_program.ok THEN Stop(Panic(proof_accounts_program.msg))
       ELSE IF ~root_bytes.ok THEN Stop(Err(root_bytes.msg))
       ELSE IF ~data_hash_bytes.ok THEN Stop(Err(data_hash_bytes.msg))
       ELSE IF ~creator_hash_bytes.ok THEN Stop(Err(creator_hash_bytes.msg))
       ELSE IF ~nonce.ok THEN Stop(Err(nonce.msg))
       ELSE IF ~index_value.ok THEN Stop(Err(index_value.msg))
       ELSE IF ~a.merkle_tree.some THEN Stop(Err("merkle_tree is required"))
       ELSE IF ~merkle_tree_pubkey.ok THEN Stop(Err(merkle_tree_pubkey.msg))
       ELSE IF ~tree_config_program.ok THEN Stop(Err(tree_config_program.msg))
       ELSE Go(kp.v,
               << to_sdk_instruction(
                    TransferInstruction(new_leaf_owner.v, tree_config_program.v,
                        leaf_owner_pubkey.v, leaf_delegate_pubkey.v, delegate_is_signing,
                        merkle_tree_pubkey.v, root_bytes.v, data_hash_bytes.v,
                        creator_hash_bytes.v, nonce.v, index_value.v,
                        proof_accounts_of(proof_accounts_program.v))) >>)

-----------------------------------------------------------------------------
(* lib.rs: the NIF entry point of the transfer *)

\* mutant: a saturating conversion
as_u32_saturating(n) ==
    IF \A i \in 5..8 : n[i] = 0 THEN SubSeq(n, 1, 4) ELSE <<255, 255, 255, 255>>

\* `nonce as u32`: the low four bytes of the u64
as_u32(n) == SubSeq(n, 1, 4)

\* the index the entry point passes for a nonce: line 56
nif_index(nonce) == Some(as_u32(nonce))

\* the Option wrappers of lines 45-61
nif_transfer_args(n) ==
    [payer_secret_key |-> n.payer_secret_key,
     new_leaf_owner |-> n.to_address,
     asset_id |-> Some(n.asset_id),
     leaf_id |-> Some(n.nonce),
     data_hash |-> Some(n.data_hash),
     creator_hash |-> Some(n.creator_hash),
     root |-> Some(n.root),
     proof |-> Some(n.proof),
     merkle_tree |-> Some(n.merkle_tree),
     tree_config |-> None,
     index |-> nif_index(n.nonce),
     leaf_owner |-> None,
     leaf_delegate |-> None,
     das_get_asset_proof |-> None,
     das_get_asset |-> None]

-----------------------------------------------------------------------------
(* builders/mint.rs *)

\* the PDA of the tree configuration as mint.rs and tree.rs derive it
tree_config_pda(merkle_tree) ==
    find_program_address(<<merkle_tree>>, BUBBLEGUM_ID)[1]

\* MetadataArgs { .. }: lines 38-55
mint_metadata(a, payer_key) ==
    [name |-> a.name, symbol |-> a.symbol, uri |-> a.uri,
     seller_fee_basis_points |-> a.seller_fee_basis_points,
     primary_sale_happened |-> FALSE, is_mutable |-> FALSE,
     creators |-> << [address |-> payer_key, verified |-> TRUE, share |-> a.share] >>]

\* mint_v1_builder up to its call of get_latest_blockhash: lines 27-85
mint_prepare(a) ==
    LET secret_key_bytes == bs58_decode(a.payer_secret_key)
        kp == Keypair_from_bytes(secret_key_bytes.v)
        merkle_tree == from_str_const(a.merkle_tree)
        tree_config == tree_config_pda(merkle_tree.v)
    IN IF ~secret_key_bytes.ok THEN Stop(Panic("Error: Failed to decode the secret key."))
       ELSE IF ~kp.ok THEN Stop(Panic("Error: Invalid secret key."))
       ELSE IF ~merkle_tree.ok THEN Stop(Panic("Error: Invalid public key string."))
       ELSE Go(kp.v,
               << to_sdk_instruction(
                    MintV1Instruction(tree_config, kp.v.pubkey, kp.v.pubkey, merkle_tree.v,
                        kp.v.pubkey, kp.v.pubkey, mint_metadata(a, kp.v.pubkey))) >>)

-----------------------------------------------------------------------------
(* builders/tree.rs *)

MAX_DEPTH == 14
MAX_BUFFER_SIZE == 64

\* CONCURRENT_MERKLE_TREE_HEADER_SIZE_V1
\*   + size_of::<ConcurrentMerkleTree<MAX_DEPTH, MAX_BUFFER_SIZE>>():
\* a 56-byte header, three u64 counters, MAX_BUFFER_SIZE change logs and the
\* rightmost path, each of 40 + 32 * MAX_DEPTH bytes
tree_account_size ==
    56 + 24 + MAX_BUFFER_SIZE * (40 + 32 * MAX_DEPTH) + (40 + 32 * MAX_DEPTH)

\* create_tree_config_builder up to get_minimum_balance_for_rent_exemption:
\* lines 17-32
tree_prepare(a) ==
    LET secret_key_bytes == bs58_decode(a.payer_secret_key)
        kp == Keypair_from_bytes(secret_key_bytes.v)
    IN IF ~secret_key_bytes.ok THEN Stop(Panic("Error: Failed to decode the secret key."))
       ELSE IF ~kp.ok THEN Stop(Panic("Error: Invalid secret key."))
       ELSE Go(kp.v, <<>>)

\* the two instructions, once the rent is known: lines 33-69
tree_instructions(kp, merkle_tree, rent) ==
    LET tree_config == tree_config_pda(merkle_tree.pubkey)
    IN << create_account(kp.pubkey, merkle_tree.pubkey, rent, tree_account_size,
                         COMPRESSION_ID),
          to_sdk_instruction(
            CreateTreeConfigInstruction(tree_config, merkle_tree.pubkey, kp.pubkey,
                kp.pubkey, MAX_DEPTH, MAX_BUFFER_SIZE)) >>

-----------------------------------------------------------------------------
(* The keys that sign and how a failed RPC call ends each builder *)

\* the keypairs handed to Transaction::new_signed_with_payer:
\* tree.rs line 74, mint.rs line 90, transfer.rs line 206
signing_keypairs(o, kp, merkle_tree) ==
    IF o = "tree" THEN <<merkle_tree, kp>> ELSE <<kp>>

\* get_latest_blockhash failed: transfer.rs maps the error into its Err, mint.rs
\* and tree.rs unwrap it
blockhash_failure(o) ==
    IF o = "transfer" THEN Err("Failed to get recent blockhash")
    ELSE Panic("called Result::unwrap() on an Err value")

-----------------------------------------------------------------------------
(* Inputs *)

\* base58 text of the 32 bytes 0, .., 0, d where d is the digit of c
KeyText(c) == Rep("1", 31) \o <<c>>
\* base58 text of 64 bytes: a secret key whose public half is KeyText(c)
SecretText(c) == Rep("1", 63) \o <<c>>

PayerSecret == SecretText("2")
PayerKeyText == KeyText("2")
OtherKeyText == KeyText("3")
NewOwnerText == KeyText("4")
Tree1Text == KeyText("5")
Tree2Text == KeyText("6")
TreeConfigText == KeyText("7")
RootText == KeyText("8")
DataHashText == KeyText("9")
CreatorHashText == KeyText("A")
Proof1Text == KeyText("B")
Proof2Text == KeyText("C")
AssetIdText == KeyText("D")

\* '0' is no base58 character
BadCharText == Rep("1", 31) \o <<"0">>
\* 31 and 33 bytes
ShortText == Rep("1", 30) \o <<"2">>
LongText == Rep("1", 32) \o <<"2">>

\* u64 values, little-endian: 42, 2^32 - 1, 2^32, 2^32 + 7
U64_42 == <<42, 0, 0, 0, 0, 0, 0, 0>>
U64_Max32 == <<255, 255, 255, 255, 0, 0, 0, 0>>
U64_Pow32 == <<0, 0, 0, 0, 1, 0, 0, 0>>
U64_Pow32_7 == <<7, 0, 0, 0, 1, 0, 0, 0>>
\* the u32 value 7
U32_7 == <<7, 0, 0, 0>>

RECURSIVE SeqsUpTo(_, _)
SeqsUpTo(S, n) ==
    IF n = 0 THEN {<<>>}
    ELSE LET shorter == SeqsUpTo(S, n - 1)
         IN shorter \cup {Append(q, x) : q \in shorter, x \in S}

GoodProofEntries == {Proof1Text, Proof2Text}
MalformedProofEntries == {BadCharText, ShortText}

\* the proof lists drawn: every list of well-formed entries, and lists with
\* malformed entries in last position or in every position
ProofLists ==
    SeqsUpTo(GoodProofEntries, MaxProof)
      \cup {Append(q, x) : q \in SeqsUpTo(GoodProofEntries, MaxProof - 1),
                           x \in MalformedProofEntries}
      \cup {q \in {<<BadCharText, ShortText>>, <<ShortText, BadCharText>>} :
                Len(q) <= MaxProof}

HashTexts(good) == {good, ShortText, LongText, BadCharText}
OptHashTexts(good) == {None} \cup {Some(t) : t \in HashTexts(good)}

\* the well-formed direct call of builders::transfer::transfer_builder
TransferBase ==
    [payer_secret_key |-> PayerSecret,
     new_leaf_owner |-> NewOwnerText,
     asset_id |-> Some(AssetIdText),
     leaf_id |-> Some(U64_42),
     data_hash |-> Some(DataHashText),
     creator_hash |-> Some(CreatorHashText),
     root |-> Some(RootText),
     proof |-> Some(<<Proof1Text>>),
     merkle_tree |-> Some(Tree1Text),
     tree_config |-> None,
     index |-> Some(U32_7),
     leaf_owner |-> None,
     leaf_delegate |-> None,
     das_get_asset_proof |-> None,
     das_get_asset |-> None]

\* the values each argument is drawn from
TransferDom ==
    [payer_secret_key |-> {PayerSecret, BadCharText, PayerKeyText},
     new_leaf_owner |-> {NewOwnerText, BadCharText},
     asset_id |-> {Some(AssetIdText), None},
     leaf_id |-> {Some(U64_42), Some(U64_Pow32_7), None},
     data_hash |-> OptHashTexts(DataHashText),
     creator_hash |-> OptHashTexts(CreatorHashText),
     root |-> OptHashTexts(RootText),
     proof |-> {None} \cup {Some(q) : q \in ProofLists},
     merkle_tree |-> {Some(Tree1Text), Some(Tree2Text), Some(ShortText), None},
     tree_config |-> {None, Some(TreeConfigText), Some(BadCharText)},
     index |-> {Some(U32_7), None},
     leaf_owner |-> {None, Some(PayerKeyText), Some(OtherKeyText), Some(BadCharText)},
     leaf_delegate |-> {None, Some(PayerKeyText), Some(OtherKeyText), Some(BadCharText)},
     das_get_asset_proof |-> {None, Some(<<"{", "}">>)},
     das_get_asset |-> {None, Some(<<"{", "}">>)}]

\* the well-formed call of the NIF transfer_builder
NifBase ==
    [payer_secret_key |-> PayerSecret,
     to_address |-> NewOwnerText,
     asset_id |-> AssetIdText,
     nonce |-> U64_42,
     data_hash |-> DataHashText,
     creator_hash |-> CreatorHashText,
     root |-> RootText,
     proof |-> <<Proof1Text>>,
     merkle_tree |-> Tree1Text]

NifDom ==
    [payer_secret_key |-> {PayerSecret, BadCharText, PayerKeyText},
     to_address |-> {NewOwnerText, BadCharText},
     asset_id |-> {AssetIdText},
     nonce |-> {U64_42, U64_Max32, U64_Pow32, U64_Pow32_7},
     data_hash |-> HashTexts(DataHashText),
     creator_hash |-> HashTexts(CreatorHashText),
     root |-> HashTexts(RootText),
     proof |-> ProofLists,
     merkle_tree |-> {Tree1Text, Tree2Text, ShortText}]

\* the sets of at most k arguments that are varied together
Varied(dom, k) == {F \in SUBSET (DOMAIN dom) : Cardinality(F) = k}

\* the values of argument f when the arguments F are varied
Drawn(base, dom, F, f) == IF f \in F THEN dom[f] ELSE {base[f]}

\* the direct calls in which the arguments F take every value of their domain
\* and the others that of the well-formed call
TransferCalls(F) ==
    [payer_secret_key : Drawn(TransferBase, TransferDom, F, "payer_secret_key"),
     new_leaf_owner : Drawn(TransferBase, TransferDom, F, "new_leaf_owner"),
     asset_id : Drawn(TransferBase, TransferDom, F, "asset_id"),
     leaf_id : Drawn(TransferBase, TransferDom, F, "leaf_id"),
     data_hash : Drawn(TransferBase, TransferDom, F, "data_hash"),
     creator_hash : Drawn(TransferBase, TransferDom, F, "creator_hash"),
     root : Drawn(TransferBase, TransferDom, F, "root"),
     proof : Drawn(TransferBase, TransferDom, F, "proof"),
     merkle_tree : Drawn(TransferBase, TransferDom, F, "merkle_tree"),
     tree_config : Drawn(TransferBase, TransferDom, F, "tree_config"),
     index : Drawn(TransferBase, TransferDom, F, "index"),
     leaf_owner : Drawn(TransferBase, TransferDom, F, "leaf_owner"),
     leaf_delegate : Drawn(TransferBase, TransferDom, F, "leaf_delegate"),
     das_get_asset_proof : Drawn(TransferBase, TransferDom, F, "das_get_asset_proof"),
     das_get_asset : Drawn(TransferBase, TransferDom, F, "das_get_asset")]

\* likewise for the NIF
NifTransferCalls(F) ==
    [payer_secret_key : Drawn(NifBase, NifDom, F, "payer_secret_key"),
     to_address : Drawn(NifBase, NifDom, F, "to_address"),
     asset_id : Drawn(NifBase, NifDom, F, "asset_id"),
     nonce : Drawn(NifBase, NifDom, F, "nonce"),
     data_hash : Drawn(NifBase, NifDom, F, "data_hash"),
     creator_hash : Drawn(NifBase, NifDom, F, "creator_hash"),
     root : Drawn(NifBase, NifDom, F, "root"),
     proof : Drawn(NifBase, NifDom, F, "proof"),
     merkle_tree : Drawn(NifBase, NifDom, F, "merkle_tree")]

MintCalls ==
    [payer_secret_key : {PayerSecret, BadCharText, PayerKeyText},
     merkle_tree : {Tree1Text, Tree2Text, BadCharText},
     name : {"Asset#1"},
     symbol : {"AST"},
     uri : {"https://x/1.json"},
     seller_fee_basis_points : {250, 10001},
     share : {0, 99, 100, 101}]

TreeCalls == [payer_secret_key : {PayerSecret, BadCharText, PayerKeyText}]

\* what Keypair::new() may return
FreshKeypairs ==
    { [secret |-> Rep(1, 32), pubkey |-> Pubkey_from_str(KeyText("E")).v],
      [secret |-> Rep(2, 32), pubkey |-> Pubkey_from_str(KeyText("F")).v] }

\* replies of the ledger RPC
RentReplies == {[ok |-> FALSE, v |-> 0], OkR(222218880)}
BlockhashReplies == {ErrR, OkR(Rep(7, 32)), OkR(Rep(9, 32))}

-----------------------------------------------------------------------------
(* The state machine *)

NoArgs == [payer_secret_key |-> <<>>]

Init ==
    /\ pc = "idle"
    /\ op = "none"
    /\ via = "none"
    /\ args = NoArgs
    /\ payer = NoKeypair
    /\ tree_kp = NoKeypair
    /\ ixs = <<>>
    /\ ledger = <<>>
    /\ blockhash = <<>>
    /\ result = Running

\* a builder starts: its stage up to the first RPC call runs
Enter(o, entry, a, st, next_pc) ==
    /\ op' = o
    /\ via' = entry
    /\ args' = a
    /\ payer' = st.payer
    /\ ixs' = st.ixs
    /\ result' = st.out
    /\ pc' = IF st.go THEN next_pc ELSE "done"
    /\ UNCHANGED <<ledger, blockhash>>

\* lib.rs create_tree_config_builder -> builders::tree::create_tree_config_builder
CallCreateTree ==
    /\ pc = "idle"
    /\ \E a \in TreeCalls, fresh \in FreshKeypairs :
        LET st == tree_prepare(a)
        IN /\ Enter("tree", "nif", a, st, "rent")
           /\ tree_kp' = IF st.go THEN fresh ELSE NoKeypair

\* client.get_minimum_balance_for_rent_exemption(size).unwrap()
RentReply ==
    /\ pc = "rent"
    /\ \E reply \in RentReplies :
        /\ ledger' = Append(ledger, [call |-> "rent", ok |-> reply.ok])
        /\ IF reply.ok
           THEN /\ ixs' = tree_instructions(payer, tree_kp, reply.v)
                /\ pc' = "blockhash"
                /\ UNCHANGED result
           ELSE /\ result' = Panic("called Result::unwrap() on an Err value")
                /\ pc' = "done"
                /\ UNCHANGED ixs
    /\ UNCHANGED <<op, via, args, payer, tree_kp, blockhash>>

\* lib.rs mint_v1_builder -> builders::mint::mint_v1_builder
CallMint ==
    /\ pc = "idle"
    /\ \E a \in MintCalls :
        /\ Enter("mint", "nif", a, mint_prepare(a), "blockhash")
        /\ UNCHANGED tree_kp

\* builders::transfer::transfer_builder called with its Option arguments
CallTransfer ==
    /\ pc = "idle"
    /\ \E F \in Varied(TransferDom, MaxDefects) : \E a \in TransferCalls(F) :
        /\ Enter("transfer", "builder", a, transfer_prepare(a), "blockhash")
        /\ UNCHANGED tree_kp

\* lib.rs transfer_builder
NifTransfer ==
    /\ pc = "idle"
    /\ \E F \in Varied(NifDom, MaxDefects) : \E n \in NifTransferCalls(F) :
        LET a == nif_transfer_args(n)
        IN /\ Enter("transfer", "nif", a, transfer_prepare(a), "blockhash")
           /\ UNCHANGED tree_kp

\* client.get_latest_blockhash()
BlockhashReply ==
    /\ pc = "blockhash"
    /\ \E reply \in BlockhashReplies :
        /\ ledger' = Append(ledger, [call |-> "blockhash", ok |-> reply.ok])
        /\ IF reply.ok
           THEN /\ blockhash' = reply.v
                /\ pc' = "sign"
                /\ UNCHANGED result
           ELSE /\ result' = blockhash_failure(op)
                /\ pc' = "done"
                /\ UNCHANGED blockhash
    /\ UNCHANGED <<op, via, args, payer, tree_kp, ixs>>

\* Transaction::new_signed_with_payer, bincode::serialize, base64::encode
SignAndSerialize ==
    /\ pc = "sign"
    /\ LET signed == new_signed_with_payer(ixs, payer.pubkey,
                         signing_keypairs(op, payer, tree_kp), blockhash)
       IN result' = IF signed.ok THEN Ok(signed.tx) ELSE Panic(signed.msg)
    /\ pc' = "done"
    /\ UNCHANGED <<op, via, args, payer, tree_kp, ixs, ledger, blockhash>>

\* the invocation is over; nothing is kept for the next one
Return ==
    /\ pc = "done"
    /\ pc' = "idle"
    /\ op' = "none"
    /\ via' = "none"
    /\ args' = NoArgs
    /\ payer' = NoKeypair
    /\ tree_kp' = NoKeypair
    /\ ixs' = <<>>
    /\ ledger' = <<>>
    /\ blockhash' = <<>>
    /\ result' = Running

Next ==
    \/ CallCreateTree
    \/ RentReply
    \/ CallMint
    \/ CallTransfer
    \/ NifTransfer
    \/ BlockhashReply
    \/ SignAndSerialize
    \/ Return

Spec == Init /\ [][Next]_vars

-----------------------------------------------------------------------------
(* Vocabulary of the properties *)

Last(q) == q[Len(q)]

\* the transfer instruction, once assembled
TransferAssembled == op = "transfer" /\ ixs # <<>>
TransferAccounts == ixs[1].accounts

ValidKeyText(t) == Pubkey_from_str(t).ok
ValidHashText(t) == LET d == bs58_decode(t) IN d.ok /\ Len(d.v) = 32
ValidSecretText(t) ==
    LET d == bs58_decode(t) IN d.ok /\ Keypair_from_bytes(d.v).ok
DecodesToOtherLength(t) == LET d == bs58_decode(t) IN d.ok /\ Len(d.v) # 32

\* argument f of the transfer call a is present where required and well formed
WellFormedArg(a, f) ==
    CASE f = "payer_secret_key" -> ValidSecretText(a[f])
      [] f = "new_leaf_owner" -> ValidKeyText(a[f])
      [] f \in {"root", "data_hash", "creator_hash"} -> a[f].some /\ ValidHashText(a[f].v)
      [] f \in {"leaf_id", "index"} -> a[f].some
      [] f = "merkle_tree" -> a[f].some /\ ValidKeyText(a[f].v)
      [] f = "proof" -> a[f].some /\ \A i \in 1..Len(a[f].v) : ValidHashText(a[f].v[i])
      [] f \in {"tree_config", "leaf_owner", "leaf_delegate"} ->
            a[f].some => ValidKeyText(a[f].v)
      [] OTHER -> TRUE

OtherwiseWellFormed(a, f) ==
    \A g \in (DOMAIN TransferDom) \ {f} : WellFormedArg(a, g)

WellFormedCall(a) == \A g \in DOMAIN TransferDom : WellFormedArg(a, g)

\* the fields of the transfer that are required
RequiredFields == {"root", "data_hash", "creator_hash", "leaf_id", "index", "merkle_tree"}
MissingFieldMsg(f) == f \o " is required"
InvalidHashLengthMsg(f) == "Invalid " \o f \o " length"

\* the keys of the keypairs that sign the transaction of this invocation
SigningKeys ==
    LET kps == signing_keypairs(op, payer, tree_kp)
    IN {kps[i].pubkey : i \in 1..Len(kps)}

\* the accounts the assembled instructions flag as signers
FlaggedSigners ==
    {ixs[i].accounts[j].pubkey : <<i, j>> \in
        {p \in (1..Len(ixs)) \X (1..9) :
            p[2] <= Len(ixs[p[1]].accounts) /\ ixs[p[1]].accounts[p[2]].is_signer}}

-----------------------------------------------------------------------------
(* C1: in the transfer instruction exactly one of the leaf owner and the   *)
(* leaf delegate slots is flagged as signer: with a delegate supplied the  *)
(* delegate slot holds the delegate and signs while the owner slot does    *)
(* not; without one the owner slot signs and the delegate slot holds the   *)
(* owner's key.                                                            *)
C1_OneAuthorizingSigner ==
    TransferAssembled =>
        LET owner == TransferAccounts[2]
            delegate == TransferAccounts[3]
        IN /\ owner.is_signer # delegate.is_signer
           /\ owner.pubkey = IF args.leaf_owner.some
                             THEN Pubkey_from_str(args.leaf_owner.v).v
                             ELSE payer.pubkey
           /\ args.leaf_delegate.some =>
                /\ delegate.is_signer /\ ~owner.is_signer
                /\ delegate.pubkey = Pubkey_from_str(args.leaf_delegate.v).v
           /\ ~args.leaf_delegate.some =>
                /\ owner.is_signer /\ ~delegate.is_signer
                /\ delegate.pubkey = owner.pubkey

\* a transfer assembled with a delegate other than the owner
C1_Witness ==
    /\ TransferAssembled
    /\ args.leaf_delegate.some
    /\ TransferAccounts[3].pubkey # TransferAccounts[2].pubkey
    /\ TransferAccounts[3].is_signer

-----------------------------------------------------------------------------
(* C2: every account the assembled instructions flag as a required signer  *)
(* has its keypair among the keys that sign the transaction, and a         *)
(* returned transaction carries a signature for every required signer.     *)
C2_SignersHoldKeys ==
    /\ ixs # <<>> => FlaggedSigners \subseteq SigningKeys
    /\ result.tag = "Ok" =>
          \A k \in FlaggedSigners \cup {payer.pubkey} :
              \E j \in 1..Len(result.tx.signatures) : result.tx.signatures[j] = k

-----------------------------------------------------------------------------
(* C3: in a transfer call that omits exactly one of root, data_hash,       *)
(* creator_hash, leaf_id, index, merkle_tree and is otherwise well formed, *)
(* the builder returns the "<field> is required" error of that field,      *)
(* which is the error of no other field; no instruction is assembled, no   *)
(* ledger call is made and nothing is signed.                              *)
C3_MissingField ==
    op = "transfer" =>
        \A f \in RequiredFields :
            (~args[f].some /\ OtherwiseWellFormed(args, f)) =>
                /\ pc = "done"
                /\ result = Err(MissingFieldMsg(f))
                /\ \A g \in RequiredFields \ {f} : result.msg # MissingFieldMsg(g)
                /\ ixs = <<>>
                /\ ledger = <<>>
                /\ result.tx = NoTx

\* a call that omits the index alone has returned
C3_Witness ==
    /\ op = "transfer"
    /\ pc = "done"
    /\ ~args.index.some
    /\ OtherwiseWellFormed(args, "index")
    /\ result.tag = "Err"

-----------------------------------------------------------------------------
(* C4: a mint whose creator share is not 100 is rejected with an           *)
(* InvalidMetadata error and produces no transaction (stated for calls     *)
(* with a valid payer key and tree address, the case in which nothing else *)
(* rejects the call); a share of 100 succeeds; the one creator is the      *)
(* payer with the share of the caller.                                     *)
C4_SharesValidated ==
    (/\ op = "mint"
     /\ ValidSecretText(args.payer_secret_key)
     /\ ValidKeyText(args.merkle_tree)) =>
        /\ args.share # 100 => (pc = "done" /\ result.tag = "Err" /\ ledger = <<>>)
        /\ (args.share = 100 /\ pc = "done" /\ Last(ledger).ok) => result.tag = "Ok"
        /\ result.tag = "Ok" =>
              LET creators == result.tx.instructions[1].data.metadata.creators
              IN /\ Len(creators) = 1
                 /\ creators[1].address = payer.pubkey
                 /\ creators[1].share = args.share

-----------------------------------------------------------------------------
(* C5: in a transfer call that is otherwise well formed, a root, data_hash *)
(* or creator_hash that decodes to a length other than 32, and likewise a  *)
(* proof entry that does, makes the builder return an error that names the *)
(* field.                                                                  *)
C5_InvalidHashLength ==
    (op = "transfer" /\ pc = "done") =>
        /\ \A f \in {"root", "data_hash", "creator_hash"} :
              (/\ args[f].some
               /\ DecodesToOtherLength(args[f].v)
               /\ OtherwiseWellFormed(args, f)) =>
                    result = Err(InvalidHashLengthMsg(f))
        /\ (/\ args.proof.some
            /\ \E i \in 1..Len(args.proof.v) : DecodesToOtherLength(args.proof.v[i])
            /\ OtherwiseWellFormed(args, "proof")) =>
                    result.tag = "Err"

-----------------------------------------------------------------------------
(* C6: every failure of a builder is returned to the caller as an error    *)
(* value, without a partial result; in particular the transfer never       *)
(* aborts by a panic, whatever its input, a proof list with a malformed    *)
(* entry included.                                                         *)
C6_FailuresAreErrorValues ==
    pc = "done" =>
        /\ op = "transfer" => result.tag \in {"Ok", "Err"}
        /\ result.tag # "Ok" => (result.tag = "Err" /\ result.tx = NoTx)

-----------------------------------------------------------------------------
(* C7 as stated: the accounts of the transfer instruction are a fixed      *)
(* prefix of 9 accounts followed by the proof entries, in input order,     *)
(* read-only and non-signer.                                               *)
ProofTail(prefix) ==
    LET n == Len(args.proof.v)
    IN /\ Len(TransferAccounts) = prefix + n
       /\ \A i \in 1..n :
            /\ TransferAccounts[prefix + i].pubkey = bs58_decode(args.proof.v[i]).v
            /\ ~TransferAccounts[prefix + i].is_signer
            /\ ~TransferAccounts[prefix + i].is_writable

C7_PrefixOfNine == TransferAssembled => ProofTail(9)

(* C7, amended: the fixed prefix is the 8 accounts of the transfer         *)
(* instruction (tree config, leaf owner, leaf delegate, new leaf owner,    *)
(* merkle tree, log wrapper, compression program, system program); the     *)
(* i-th account after it is the i-th proof entry, read-only, non-signer.   *)
C7_PrefixOfEight ==
    TransferAssembled =>
        /\ ProofTail(8)
        /\ TransferAccounts[5].pubkey = Pubkey_from_str(args.merkle_tree.v).v
        /\ TransferAccounts[8].pubkey = SYSTEM_PROGRAM_ID

\* a transfer assembled with two different proof entries
C7_Witness ==
    /\ TransferAssembled
    /\ Len(args.proof.v) = 2
    /\ args.proof.v[1] # args.proof.v[2]
    /\ Len(TransferAccounts) = 10

-----------------------------------------------------------------------------
(* C8: in every invocation the recent blockhash is fetched at most once,   *)
(* only after decoding, validation and instruction assembly succeeded, and *)
(* signing follows the fetch with no ledger call in between; a failed      *)
(* fetch ends the builder with the ledger error as its returned error      *)
(* value, with no second fetch and nothing signed.                         *)
BlockhashFetches(calls) ==
    Cardinality({i \in 1..Len(calls) : calls[i].call = "blockhash"})

Fetched == Len(ledger') = Len(ledger) + 1 /\ Last(ledger').call = "blockhash"

FreshnessOrder ==
    /\ BlockhashFetches(ledger') <= 1
    /\ Fetched => (pc = "blockhash" /\ ixs # <<>> /\ ixs' = ixs /\ result = Running)
    /\ pc' = "sign" => (Fetched /\ Last(ledger').ok)
    /\ pc = "sign" => (ledger' = ledger /\ Last(ledger).call = "blockhash" /\ pc' = "done")
    /\ (Fetched /\ ~Last(ledger').ok) => (pc' = "done" /\ result'.tx = NoTx)

C8_FreshnessToken ==
    [][/\ FreshnessOrder
       /\ (Fetched /\ ~Last(ledger').ok) => result'.tag = "Err"]_vars

-----------------------------------------------------------------------------
(* C9: the tree configuration account of the transfer is the supplied      *)
(* tree_config when one is given and otherwise the address derived from    *)
(* the seed [tree address] under the Bubblegum program id; mint and        *)
(* create-tree use the address derived in the same way from their tree     *)
(* address.                                                                *)
DerivedTreeConfig(tree) == find_program_address(<<tree>>, BUBBLEGUM_ID)[1]

C9_TreeConfigAddress ==
    ixs # <<>> =>
        /\ op = "transfer" =>
              /\ ixs[1].accounts[1].pubkey =
                    IF args.tree_config.some
                    THEN Pubkey_from_str(args.tree_config.v).v
                    ELSE DerivedTreeConfig(ixs[1].accounts[5].pubkey)
              /\ ixs[1].accounts[5].pubkey = Pubkey_from_str(args.merkle_tree.v).v
        /\ op = "mint" =>
              /\ ixs[1].accounts[1].pubkey = DerivedTreeConfig(ixs[1].accounts[4].pubkey)
              /\ ixs[1].accounts[4].pubkey = Pubkey_from_str(args.merkle_tree).v
        /\ op = "tree" =>
              /\ ixs[2].accounts[1].pubkey = DerivedTreeConfig(ixs[2].accounts[2].pubkey)
              /\ ixs[2].accounts[2].pubkey = tree_kp.pubkey

\* a transfer assembled with a supplied tree_config that is not the derived one
C9_Witness ==
    /\ TransferAssembled
    /\ args.tree_config.some
    /\ ixs[1].accounts[1].pubkey # DerivedTreeConfig(ixs[1].accounts[5].pubkey)

-----------------------------------------------------------------------------
(* C10: through the NIF the instruction carries the caller's 64-bit nonce  *)
(* and, as index, its low 32 bits; the index equals the nonce exactly when *)
(* the nonce is below 2^32, and a nonce of 2^32 or more is not rejected:   *)
(* the otherwise well-formed call succeeds.                                *)
Below2Pow32(n) == \A i \in 5..8 : n[i] = 0
ZeroExtended(i) == i \o <<0, 0, 0, 0>>

C10_IndexIsTruncatedNonce ==
    (op = "transfer" /\ via = "nif") =>
        /\ args.leaf_id.some /\ args.index.some
        /\ Len(args.leaf_id.v) = 8 /\ Len(args.index.v) = 4
        /\ \A i \in 1..4 : args.index.v[i] = args.leaf_id.v[i]
        /\ ixs # <<>> =>
              /\ ixs[1].data.nonce = args.leaf_id.v
              /\ ixs[1].data.index = args.index.v
              /\ (ZeroExtended(ixs[1].data.index) = ixs[1].data.nonce)
                    <=> Below2Pow32(ixs[1].data.nonce)
        /\ (WellFormedCall(args) /\ pc = "done" /\ Last(ledger).ok) => result.tag = "Ok"

\* a NIF transfer with a nonce of 2^32 or more has returned a transaction
\* whose index differs from its nonce
C10_Witness ==
    /\ op = "transfer" /\ via = "nif" /\ pc = "done"
    /\ result.tag = "Ok"
    /\ ~Below2Pow32(args.leaf_id.v)
    /\ ZeroExtended(result.tx.instructions[1].data.index)
          # result.tx.instructions[1].data.nonce

=============================================================================
